---- MODULE Spec2Model ----
(***************************************************************************)
(* A model of ugit (src/ugit/base.py, data.py, remote.py): the object      *)
(* store, the ref store, the index, the tree codec, the commit graph       *)
(* traversals, merge, and push / fetch between two repositories.           *)
(*                                                                         *)
(* Conventions.                                                            *)
(*  - An object file is [type, lines]: the kind before the NUL byte and    *)
(*    the payload split into lines; a line is [key, oid, text, name].      *)
(*  - An object id is the object it is the digest of: hashlib.sha1 is      *)
(*    taken to be injective, so a digest is modelled by the (kind,         *)
(*    payload) pair that was hashed.  None is the id of no object.         *)
(*  - A ref file is [symbolic, target, oid]: "ref: <target>" or "<oid>".   *)
(*  - A path is the sequence of its components (path.split('/')).          *)
(*  - A Python dict is the sequence of its items in insertion order.       *)
(*  - A Python exception is the string naming it; "" is a normal return.   *)
(***************************************************************************)
EXTENDS Integers, Sequences, FiniteSets, TLC

VARIABLES
    objects,    \* objects[r]: the files of <r>/.ugit/objects, oid -> object
    refs,       \* refs[r]: the ref files of <r>/.ugit, ref name -> ref file
    index,      \* index[r]: the persisted <r>/.ugit/index, items in dict order
    working,    \* working[r]: the files of <r> outside .ugit, path -> bytes
    last,       \* the last call: its name, arguments and outcome
    iter        \* the generator of iter_commits_and_parents being consumed

vars == <<objects, refs, index, working, last, iter>>

----------------------------------------------------------------------------
(* Bounds of the model *)

MaxCommits == 3                     \* commit objects of one repository
MaxTrees == 2                       \* tree objects of one repository (SpecIndex)

Repos == {"R1", "R2"}               \* two repositories, each the other's remote
Work == {"R1"}                      \* where Spec calls add, commit, checkout, merge
Contents == {1}                     \* the bytes of a working file
Messages == {1}                     \* commit messages
Paths == {<<"a">>}                  \* working files
Branches == {"master", "dev"}
WorkBranches == {"master"}          \* the branches Spec checks out and moves

----------------------------------------------------------------------------
(* Python values *)

\* None where an object id is expected (also the empty string)
None == [type |-> "", lines |-> <<>>]

\* an empty line
NoLine == [key |-> "", oid |-> None, text |-> 0, name |-> ""]

\* '<key> <oid> <name>', the line of a tree entry or of a commit header
Line(k, o, n) == [key |-> k, oid |-> o, text |-> 0, name |-> n]

\* a line of text: the bytes of a file, or the message of a commit
Text(t) == [key |-> "text", oid |-> None, text |-> t, name |-> ""]

\* str order on the entry names used by the model ('a' < 'b' < 'd')
Rank(name) ==
    CASE name = "a" -> 1
      [] name = "b" -> 2
      [] name = "d" -> 3
      [] OTHER -> 4

\* dict[k] = v: an existing key keeps its position, a new one is appended
DictSet(d, k, v) ==
    IF \E i \in 1..Len(d) : d[i].path = k
    THEN [i \in 1..Len(d) |-> IF d[i].path = k THEN [path |-> k, oid |-> v] ELSE d[i]]
    ELSE Append(d, [path |-> k, oid |-> v])

RECURSIVE DictUpdate(_, _)
\* d.update(e)
DictUpdate(d, e) ==
    IF e = <<>> THEN d
    ELSE DictUpdate(DictSet(d, Head(e).path, Head(e).oid), Tail(e))

\* open(path, 'wb').write(bytes) in a directory given as path -> bytes
write_file(files, path, bytes) ==
    [p \in DOMAIN files \cup {path} |-> IF p = path THEN bytes ELSE files[p]]

\* the mapping a dict denotes, insertion order forgotten
AsMap(d) == {<<d[i].path, d[i].oid>> : i \in 1..Len(d)}

----------------------------------------------------------------------------
(* data.py: the object store *)

\* a digest that is the same for every object
sha1_constant(obj) == [type |-> "blob", lines |-> <<>>]

\* hashlib.sha1(obj).hexdigest()
sha1(obj) == obj

\* hash_object(data, type_): writes objects/<oid> and returns oid
hash_object(objs, lines, type_) ==
    LET obj == [type |-> type_, lines |-> lines]
        oid == sha1(obj)
    IN  [oid     |-> oid,
         objects |-> [o \in DOMAIN objs \cup {oid} |-> IF o = oid THEN obj ELSE objs[o]]]

\* object_exists(oid)
object_exists(objs, oid) == oid \in DOMAIN objs

\* get_object(oid, expected): the payload, or the exception raised
get_object(objs, oid, expected) ==
    IF oid \notin DOMAIN objs
    THEN [err |-> "FileNotFoundError", lines |-> <<>>]
    ELSE IF expected # "" /\ objs[oid].type # expected
    THEN [err |-> "AssertionError", lines |-> <<>>]
    ELSE [err |-> "", lines |-> objs[oid].lines]

----------------------------------------------------------------------------
(* data.py: the ref store *)

NoRef == [symbolic |-> FALSE, target |-> "", oid |-> None]

Symbolic(t) == [symbolic |-> TRUE, target |-> t, oid |-> None]

Direct(o) == [symbolic |-> FALSE, target |-> "", oid |-> o]

\* bool(value.value) of a RefValue
Truthy(v) == v.symbolic \/ v.oid # None

RECURSIVE _get_ref_internal(_, _, _)
\* _get_ref_internal(ref, deref): (ref name, RefValue)
_get_ref_internal(rf, ref, deref) ==
    LET value == IF ref \in DOMAIN rf THEN rf[ref] ELSE NoRef
    IN  IF value.symbolic /\ deref
        THEN _get_ref_internal(rf, value.target, TRUE)
        ELSE [ref |-> ref, value |-> value]

\* get_ref(ref, deref)
get_ref(rf, ref, deref) == _get_ref_internal(rf, ref, deref).value

\* update_ref(ref, value, deref): the ref files afterwards (value.value is
\* non-empty at every call site of the model)
update_ref(rf, ref, value, deref) ==
    LET name == _get_ref_internal(rf, ref, deref).ref
    IN  [n \in DOMAIN rf \cup {name} |-> IF n = name THEN value ELSE rf[n]]

\* delete_ref(ref, deref): os.remove raises when the file does not exist
delete_ref(rf, ref, deref) ==
    LET name == _get_ref_internal(rf, ref, deref).ref
    IN  IF name \in DOMAIN rf
        THEN [err |-> "", refs |-> [n \in DOMAIN rf \ {name} |-> rf[n]]]
        ELSE [err |-> "FileNotFoundError", refs |-> rf]

----------------------------------------------------------------------------
(* data.py: the index *)

\* get_index_with_finally is the context manager with the dump in a finally
\* clause, get_index the one of the source.
\* get_index(): the context manager loads the persisted mapping, runs the
\* body and dumps the mapping after the yield.  The generator has no try /
\* finally, so an exception raised by the body leaves at the yield and the
\* dump is not reached.  body is [err, index]: the exception of the body
\* and the mapping as the body left it.
get_index_with_finally(persisted, body) == body.index

get_index(persisted, body) ==
    IF body.err = "" THEN body.index ELSE persisted

----------------------------------------------------------------------------
(* base.py: the tree codec *)

RECURSIVE InsertSorted(_, _)
InsertSorted(e, es) ==
    IF es = <<>> THEN <<e>>
    ELSE IF Rank(e.name) <= Rank(Head(es).name) THEN <<e>> \o es
    ELSE <<Head(es)>> \o InsertSorted(e, Tail(es))

\* the entries of a tree left in the order of the dict
unsorted(entries) == entries

RECURSIVE sorted(_)
\* sorted(entries): the entries are (name, oid, type_) tuples and the names
\* of one directory are distinct, so the order is the order of the names
sorted(entries) ==
    IF entries = <<>> THEN <<>>
    ELSE InsertSorted(Head(entries), sorted(Tail(entries)))

RECURSIVE DirNames(_, _)
\* the keys of one level of index_as_tree, in insertion order
DirNames(items, seen) ==
    IF items = <<>> THEN <<>>
    ELSE LET n == Head(Head(items).path)
         IN  IF n \in seen THEN DirNames(Tail(items), seen)
             ELSE <<n>> \o DirNames(Tail(items), seen \cup {n})

RECURSIVE write_tree_recursive(_, _)
RECURSIVE WriteTreeEntries(_, _, _, _)

\* the loop of write_tree_recursive over tree_dict.items(): names are the keys
\* still to visit, entries the list built so far
WriteTreeEntries(objs, items, names, entries) ==
    IF names = <<>>
    THEN [objects |-> objs, entries |-> entries]
    ELSE LET name == Head(names)
             under == SelectSeq(items, LAMBDA it : Head(it.path) = name)
             files == SelectSeq(under, LAMBDA it : Len(it.path) = 1)
         IN  IF files # <<>>
             THEN WriteTreeEntries(objs, items, Tail(names),
                      Append(entries, Line("blob", files[Len(files)].oid, name)))
             ELSE LET sub == write_tree_recursive(objs,
                                 [i \in 1..Len(under) |->
                                     [path |-> Tail(under[i].path), oid |-> under[i].oid]])
                  IN  WriteTreeEntries(sub.objects, items, Tail(names),
                          Append(entries, Line("tree", sub.oid, name)))

\* write_tree_recursive(tree_dict), tree_dict given by the index items below it
write_tree_recursive(objs, items) ==
    LET w == WriteTreeEntries(objs, items, DirNames(items, {}), <<>>)
    IN  hash_object(w.objects, sorted(w.entries), "tree")

\* write_tree(): the index is read and persisted unchanged
write_tree(objs, idx) == write_tree_recursive(objs, idx)

\* _iter_tree_entries(oid)
_iter_tree_entries(objs, oid) ==
    IF oid = None THEN [err |-> "", lines |-> <<>>]
    ELSE get_object(objs, oid, "tree")

RECURSIVE get_tree(_, _, _)
RECURSIVE GetTreeLoop(_, _, _, _)

\* the loop of get_tree over the entries of one tree object
GetTreeLoop(objs, lines, base_path, results) ==
    IF lines = <<>> THEN [err |-> "", results |-> results]
    ELSE LET e == Head(lines)
             path == base_path \o <<e.name>>
         IN  IF e.name \in {"/", "..", "."}
             THEN [err |-> "AssertionError", results |-> results]
             ELSE IF e.key = "blob"
             THEN GetTreeLoop(objs, Tail(lines), base_path, DictSet(results, path, e.oid))
             ELSE IF e.key = "tree"
             THEN LET sub == get_tree(objs, e.oid, path)
                  IN  IF sub.err # "" THEN [err |-> sub.err, results |-> results]
                      ELSE GetTreeLoop(objs, Tail(lines), base_path,
                                       DictUpdate(results, sub.results))
             ELSE [err |-> "AssertionError", results |-> results]

\* get_tree(oid, base_path): {path: oid} of all blobs under a tree
get_tree(objs, oid, base_path) ==
    LET t == _iter_tree_entries(objs, oid)
    IN  IF t.err # "" THEN [err |-> t.err, results |-> <<>>]
        ELSE GetTreeLoop(objs, t.lines, base_path, <<>>)

----------------------------------------------------------------------------
(* base.py: commits and the commit graph *)

RECURSIVE GetCommitHeader(_, _)
\* the takewhile loop of get_commit over the header lines
GetCommitHeader(lines, c) ==
    IF lines = <<>> \/ Head(lines) = NoLine THEN c
    ELSE LET l == Head(lines)
         IN  IF l.key = "tree"
             THEN GetCommitHeader(Tail(lines), [c EXCEPT !.tree = l.oid])
             ELSE IF l.key = "parent"
             THEN GetCommitHeader(Tail(lines), [c EXCEPT !.parents = Append(@, l.oid)])
             ELSE [c EXCEPT !.err = "AssertionError"]

\* get_commit(oid): Commit(tree, parents, message), or the exception
get_commit(objs, oid) ==
    LET o == get_object(objs, oid, "commit")
    IN  IF o.err # "" THEN [err |-> o.err, tree |-> None, parents |-> <<>>]
        ELSE GetCommitHeader(o.lines, [err |-> "", tree |-> None, parents |-> <<>>])

\* the text of a commit object built by commit()
CommitLines(tree, HEAD, MERGE_HEAD, message) ==
    <<Line("tree", tree, "")>>
    \o (IF HEAD # None THEN <<Line("parent", HEAD, "")>> ELSE <<>>)
    \o (IF MERGE_HEAD # None THEN <<Line("parent", MERGE_HEAD, "")>> ELSE <<>>)
    \o <<NoLine, Text(message)>>

\* a one-character string: never empty, never a digest
Char == [type |-> "char", lines |-> <<>>]

\* What deque(x) iterates over.  A str iterates over its characters, a
\* digest over its 40 hexadecimal digits (the first two stand for them all);
\* a bound method is not iterable.
StrOf(oid) == [iterable |-> TRUE, items |-> <<Char, Char>>]

\* the name of a ref, or a name given to get_oid, that is the digest oid
HexName(oid) == ToString(oid)

SetOf(oids) == [iterable |-> TRUE, items |-> oids]

BoundMethod == [iterable |-> FALSE, items |-> <<>>]

\* Python's s[:1] and s[1:]
FirstOf(s) == IF s = <<>> THEN <<>> ELSE <<Head(s)>>

RestOf(s) == IF s = <<>> THEN <<>> ELSE Tail(s)

RECURSIVE IterCommitsLoop(_, _, _, _)
\* the while loop of iter_commits_and_parents: the ids yielded, and the
\* exception that ended the generator
IterCommitsLoop(objs, oids, visited, out) ==
    IF oids = <<>> THEN [err |-> "", out |-> out]
    ELSE LET oid == Head(oids)
         IN  IF oid = None \/ oid \in visited
             THEN IterCommitsLoop(objs, Tail(oids), visited, out)
             ELSE LET commit == get_commit(objs, oid)
                  IN  IF commit.err # ""
                      THEN [err |-> commit.err, out |-> Append(out, oid)]
                      ELSE IterCommitsLoop(objs,
                               FirstOf(commit.parents) \o Tail(oids)
                                   \o RestOf(commit.parents),
                               visited, Append(out, oid))

\* iter_commits_and_parents(oids): visited is created empty and never added to
iter_commits_and_parents(objs, oids) ==
    IF ~oids.iterable THEN [err |-> "TypeError", out |-> <<>>]
    ELSE IterCommitsLoop(objs, oids.items, {}, <<>>)

\* a while loop that is never left
Spinning(g) == g

\* while oids: the deque is empty, the generator returns
Exhausted(g) == [g EXCEPT !.running = FALSE]

\* one iteration of the while loop of iter_commits_and_parents, on the
\* generator g: its deque oids, its set visited and the ids yielded so far
IterStep(objs, g) ==
    IF g.oids = <<>> THEN Exhausted(g)
    ELSE LET oid == Head(g.oids)
             commit == get_commit(objs, oid)
         IN  IF oid = None \/ oid \in g.visited
             THEN [g EXCEPT !.oids = Tail(g.oids)]
             ELSE IF commit.err # ""
             THEN [g EXCEPT !.oids = Tail(g.oids), !.yielded = Append(@, oid),
                            !.running = FALSE, !.err = commit.err]
             ELSE [g EXCEPT !.oids = FirstOf(commit.parents) \o Tail(g.oids)
                                         \o RestOf(commit.parents),
                            !.yielded = Append(@, oid)]

\* x in <generator>: stops at the first element equal to x
InGenerator(x, gen) ==
    IF \E i \in 1..Len(gen.out) : gen.out[i] = x THEN [err |-> "", ret |-> TRUE]
    ELSE [err |-> gen.err, ret |-> FALSE]

\* is_ancestor_of(commit, maybe_ancestor): commit is passed to
\* iter_commits_and_parents as it is, a str
is_ancestor_of(objs, commit, maybe_ancestor) ==
    InGenerator(maybe_ancestor, iter_commits_and_parents(objs, StrOf(commit)))

\* a merge base taken as the last common commit of the traversal
get_merge_base_last(objs, oid1, oid2) ==
    LET g1 == iter_commits_and_parents(objs, SetOf(<<oid1>>))
        g2 == iter_commits_and_parents(objs, SetOf(<<oid2>>))
        hits == {i \in 1..Len(g2.out) : \E j \in 1..Len(g1.out) : g1.out[j] = g2.out[i]}
    IN  IF hits # {}
        THEN [err |-> "", ret |-> g2.out[CHOOSE i \in hits : \A j \in hits : i >= j]]
        ELSE [err |-> g2.err, ret |-> None]

\* get_merge_base(oid1, oid2)
get_merge_base(objs, oid1, oid2) ==
    LET g1 == iter_commits_and_parents(objs, SetOf(<<oid1>>))
        parents1 == {g1.out[i] : i \in 1..Len(g1.out)}
        g2 == iter_commits_and_parents(objs, SetOf(<<oid2>>))
        hits == {i \in 1..Len(g2.out) : g2.out[i] \in parents1}
    IN  IF g1.err # "" THEN [err |-> g1.err, ret |-> None]
        ELSE IF hits # {}
        THEN [err |-> "", ret |-> g2.out[CHOOSE i \in hits : \A j \in hits : i <= j]]
        ELSE [err |-> g2.err, ret |-> None]

----------------------------------------------------------------------------
(* base.py: iter_objects_in_commits.  The generator is lazy: the consumer   *)
(* runs between a yield and the next read of the store.  S is the state of  *)
(* the iteration: the object files read (objs), visited, the ids yielded    *)
(* (out) and the exception that ended it (err).  env says what the consumer *)
(* does with an id: fetch it from env.remote (fetch), or only collect it.   *)

\* fetch_object_if_missing(oid, remote_git_dir): the object files afterwards
fetch_object_if_missing(objs, oid, remote_objs) ==
    IF object_exists(objs, oid) THEN [err |-> "", objects |-> objs]
    ELSE IF oid \notin DOMAIN remote_objs
    THEN [err |-> "FileNotFoundError", objects |-> objs]
    ELSE [err |-> "",
          objects |-> [o \in DOMAIN objs \cup {oid} |->
                          IF o = oid THEN remote_objs[oid] ELSE objs[o]]]

\* push_object(oid, remote_git_dir): the remote's object files afterwards
push_object(objs, oid, remote_objs) ==
    [o \in DOMAIN remote_objs \cup {oid} |-> IF o = oid THEN objs[oid] ELSE remote_objs[o]]

\* yield oid, and the body of the consumer's loop
Yield(S, oid, env) ==
    LET f == fetch_object_if_missing(S.objs, oid, env.remote)
    IN  IF env.fetch
        THEN [S EXCEPT !.out = Append(@, oid), !.objs = f.objects, !.err = f.err]
        ELSE [S EXCEPT !.out = Append(@, oid)]

RECURSIVE iter_objects_in_tree(_, _, _)
RECURSIVE IterTreeLoop(_, _, _)

\* the loop of iter_objects_in_tree over the entries of one tree
IterTreeLoop(S, lines, env) ==
    IF lines = <<>> \/ S.err # "" THEN S
    ELSE LET e == Head(lines)
         IN  IF e.oid \in S.visited THEN IterTreeLoop(S, Tail(lines), env)
             ELSE IF e.key = "tree"
             THEN IterTreeLoop(iter_objects_in_tree(S, e.oid, env), Tail(lines), env)
             ELSE IterTreeLoop(Yield([S EXCEPT !.visited = @ \cup {e.oid}], e.oid, env),
                               Tail(lines), env)

iter_objects_in_tree(S, oid, env) ==
    LET S1 == Yield([S EXCEPT !.visited = @ \cup {oid}], oid, env)
        t == _iter_tree_entries(S1.objs, oid)
    IN  IF S1.err # "" THEN S1
        ELSE IF t.err # "" THEN [S1 EXCEPT !.err = t.err]
        ELSE IterTreeLoop(S1, t.lines, env)

RECURSIVE IterObjectsLoopReadFirst(_, _, _)
\* the loop of iter_objects_in_commits with get_commit(oid) before yield oid
IterObjectsLoopReadFirst(S, oids, env) ==
    IF oids = <<>> THEN S
    ELSE LET oid == Head(oids)
             commit == get_commit(S.objs, oid)
             S1 == Yield(S, oid, env)
             S2 == IF commit.tree \notin S1.visited
                   THEN iter_objects_in_tree(S1, commit.tree, env)
                   ELSE S1
         IN  IF oid = None THEN IterObjectsLoopReadFirst(S, Tail(oids), env)
             ELSE IF commit.err # "" THEN [S EXCEPT !.err = commit.err]
             ELSE IF S1.err # "" THEN S1
             ELSE IF S2.err # "" THEN S2
             ELSE IterObjectsLoopReadFirst(S2, FirstOf(commit.parents) \o Tail(oids)
                                                   \o RestOf(commit.parents), env)

RECURSIVE IterObjectsLoop(_, _, _)
\* the for loop of iter_objects_in_commits over iter_commits_and_parents,
\* whose deque is oids
IterObjectsLoop(S, oids, env) ==
    IF oids = <<>> THEN S
    ELSE LET oid == Head(oids)
             S1 == Yield(S, oid, env)
             commit == get_commit(S1.objs, oid)
             S2 == IF commit.tree \notin S1.visited
                   THEN iter_objects_in_tree(S1, commit.tree, env)
                   ELSE S1
         IN  IF oid = None THEN IterObjectsLoop(S, Tail(oids), env)
             ELSE IF S1.err # "" THEN S1
             ELSE IF commit.err # "" THEN [S1 EXCEPT !.err = commit.err]
             ELSE IF S2.err # "" THEN S2
             ELSE IterObjectsLoop(S2, FirstOf(commit.parents) \o Tail(oids)
                                          \o RestOf(commit.parents), env)

\* iter_objects_in_commits(oids)
iter_objects_in_commits(objs, oids, env) ==
    LET S == [objs |-> objs, visited |-> {}, out |-> <<>>, err |-> ""]
    IN  IF ~oids.iterable THEN [S EXCEPT !.err = "TypeError"]
        ELSE IterObjectsLoop(S, oids.items, env)

\* a consumer that only collects the ids: set(...)
Collect == [fetch |-> FALSE, remote |-> <<>>]

----------------------------------------------------------------------------
(* data.py: iter_refs, and remote.py *)

\* a filter that lets every ref through
StartsWithAny(refname, prefix) == TRUE

\* refname.startswith(prefix), for the prefixes remote.py passes
StartsWith(refname, prefix) ==
    \/ prefix = ""
    \/ prefix = "refs/heads/" /\ refname \in {"refs/heads/" \o b : b \in Branches}

RECURSIVE IterRefsLoop(_, _, _, _)
IterRefsLoop(rf, names, prefix, out) ==
    IF names = <<>> THEN out
    ELSE LET refname == Head(names)
             ref == get_ref(rf, refname, TRUE)
         IN  IF StartsWith(refname, prefix) /\ Truthy(ref)
             THEN IterRefsLoop(rf, Tail(names), prefix,
                               Append(out, [name |-> refname, oid |-> ref.oid]))
             ELSE IterRefsLoop(rf, Tail(names), prefix, out)

RECURSIVE SeqOf(_)
\* the elements of a set in some order: os.walk lists a directory in the
\* order the file system gives
SeqOf(set) ==
    IF set = {} THEN <<>>
    ELSE LET x == CHOOSE x \in set : TRUE IN <<x>> \o SeqOf(set \ {x})

\* iter_refs(prefix): HEAD, MERGE_HEAD and the files under refs/
iter_refs(rf, prefix) ==
    IterRefsLoop(rf, <<"HEAD", "MERGE_HEAD">> \o SeqOf(DOMAIN rf \ {"HEAD", "MERGE_HEAD"}),
                 prefix, <<>>)

\* _get_remote_refs(remote_path, prefix): a dict refname -> oid
_get_remote_refs(remote_rf, prefix) == iter_refs(remote_rf, prefix)

\* dict.values()
Values(d) == [i \in 1..Len(d) |-> d[i].oid]

\* a dict where an object id is expected: equal to no str
ADict == [type |-> "dict", lines |-> <<>>]

\* os.path.relpath(remote_name, 'refs/heads/')
BranchOf(remote_name) == CHOOSE b \in Branches : "refs/heads/" \o b = remote_name

RECURSIVE FetchRefsLoop(_, _)
\* the second loop of fetch: the tracking refs
FetchRefsLoop(rf, items) ==
    IF items = <<>> THEN rf
    ELSE FetchRefsLoop(update_ref(rf, "refs/remote//" \o BranchOf(Head(items).name),
                                  Direct(Head(items).oid), TRUE),
                       Tail(items))

\* fetch(remote_path): refs.values, the bound method, is what is handed to
\* iter_objects_in_commits
fetch(objs, rf, remote_objs, remote_rf) ==
    LET remote_refs == _get_remote_refs(remote_rf, "refs/heads/")
        g == iter_objects_in_commits(objs, BoundMethod, [fetch |-> TRUE, remote |-> remote_objs])
    IN  IF g.err # "" THEN [err |-> g.err, objects |-> g.objs, refs |-> rf]
        ELSE [err |-> "", objects |-> g.objs, refs |-> FetchRefsLoop(rf, remote_refs)]

RECURSIVE PushObjectsLoop(_, _, _)
PushObjectsLoop(objs, oids, remote_objs) ==
    IF oids = {} THEN remote_objs
    ELSE LET oid == CHOOSE o \in oids : TRUE
         IN  PushObjectsLoop(objs, oids \ {oid}, push_object(objs, oid, remote_objs))

\* push without its assertion on the remote refs
PushUnchecked(objs, local_ref, remote_refs) == [err |-> "", ret |-> TRUE]

\* is_ancestor_of as push calls it: assert not remote_refs or is_ancestor_of(...)
PushCheck(objs, local_ref, remote_refs) ==
    IF remote_refs = <<>> THEN [err |-> "", ret |-> TRUE]
    ELSE is_ancestor_of(objs, local_ref, ADict)

\* push(remote_path, refname)
push(objs, rf, remote_objs, remote_rf, refname) ==
    LET remote_refs == _get_remote_refs(remote_rf, "")
        local_ref == get_ref(rf, refname, TRUE).oid
        anc == PushCheck(objs, local_ref, remote_refs)
        known_remote_refs == SelectSeq(Values(remote_refs), LAMBDA o : object_exists(objs, o))
        r == iter_objects_in_commits(objs, SetOf(known_remote_refs), Collect)
        l == iter_objects_in_commits(objs, SetOf(<<local_ref>>), Collect)
        objects_to_push == {l.out[i] : i \in 1..Len(l.out)} \ {r.out[i] : i \in 1..Len(r.out)}
        same == [objects |-> remote_objs, refs |-> remote_rf]
    IN  IF local_ref = None THEN [err |-> "AssertionError"] @@ same
        ELSE IF anc.err # "" THEN [err |-> anc.err] @@ same
        ELSE IF ~anc.ret THEN [err |-> "AssertionError"] @@ same
        ELSE IF r.err # "" THEN [err |-> r.err] @@ same
        ELSE IF l.err # "" THEN [err |-> l.err] @@ same
        ELSE [err |-> "",
              objects |-> PushObjectsLoop(objs, objects_to_push, remote_objs),
              refs |-> update_ref(remote_rf, refname, Direct(local_ref), TRUE)]

----------------------------------------------------------------------------
(* diff.py is not among the sources: merge_trees as the specification of    *)
(* the merge engine describes it.                                           *)

\* the union of the paths of three trees, in the order first met
MergePaths(t_base, t_HEAD, t_other) ==
    LET all == DictUpdate(DictUpdate(t_base, t_HEAD), t_other)
    IN  [i \in 1..Len(all) |-> all[i].path]

\* tree.get(path)
DictGet(d, k) ==
    IF \E i \in 1..Len(d) : d[i].path = k
    THEN (CHOOSE it \in {d[i] : i \in 1..Len(d)} : it.path = k).oid
    ELSE None

RECURSIVE MergeLoop(_, _, _, _, _, _, _)
\* one path at a time: a side that alone changed from base is taken, equal
\* sides are taken, and two different changes go to the file-level merge,
\* whose text (merged) is stored as a new blob
MergeLoop(objs, paths, t_base, t_HEAD, t_other, merged, tree) ==
    IF paths = <<>> THEN [objects |-> objs, tree |-> tree]
    ELSE LET p == Head(paths)
             o_base == DictGet(t_base, p)
             o_HEAD == DictGet(t_HEAD, p)
             o_other == DictGet(t_other, p)
         IN  IF o_HEAD = o_base \/ o_other = o_base \/ o_HEAD = o_other
             THEN LET side == IF o_HEAD = o_base THEN o_other ELSE o_HEAD
                  IN  MergeLoop(objs, Tail(paths), t_base, t_HEAD, t_other, merged,
                                IF side = None THEN tree ELSE DictSet(tree, p, side))
             ELSE LET h == hash_object(objs, <<Text(merged)>>, "blob")
                  IN  MergeLoop(h.objects, Tail(paths), t_base, t_HEAD, t_other,
                                merged, DictSet(tree, p, h.oid))

merge_trees(objs, t_base, t_HEAD, t_other, merged) ==
    MergeLoop(objs, MergePaths(t_base, t_HEAD, t_other),
              t_base, t_HEAD, t_other, merged, <<>>)

----------------------------------------------------------------------------
(* base.py: the operations.  Each returns the files of the repository      *)
(* after the call and the exception that ended it ("" for a return).       *)

\* read_tree(tree_oid): index.clear(), index.update(get_tree(tree_oid)) inside
\* get_index(); update_working is False at every call in base.py
read_tree(objs, idx, tree_oid) ==
    LET t == get_tree(objs, tree_oid, <<>>)
        body == [err |-> t.err, index |-> DictUpdate(<<>>, t.results)]
    IN  [err |-> t.err, index |-> get_index(idx, body)]

\* a test that ignores no path
is_ignored_never(path) == FALSE

\* is_ignored(path): '.ugit' in path.split('/')
is_ignored(path) == \E i \in 1..Len(path) : path[i] = ".ugit"

\* where the object files are, seen from the working directory
ObjectsDir == <<".ugit", "objects", "oid">>

\* _empty_current_directory(): os.walk('.') meets the working files and the
\* files under .ugit alike, and removes those is_ignored does not keep
_empty_current_directory(work, objs) ==
    [working |-> [p \in {q \in DOMAIN work : is_ignored(q)} |-> work[p]],
     objects |-> IF is_ignored(ObjectsDir) THEN objs ELSE <<>>]

RECURSIVE CheckoutIndexLoop(_, _, _)
\* the loop of _checkout_index: the file is opened for writing before the
\* blob is read, so a blob that cannot be read leaves an empty file
CheckoutIndexLoop(objs, items, work) ==
    IF items = <<>> THEN [err |-> "", working |-> work]
    ELSE LET blob == get_object(objs, Head(items).oid, "blob")
         IN  IF blob.err # ""
             THEN [err |-> blob.err, working |-> write_file(work, Head(items).path, <<>>)]
             ELSE CheckoutIndexLoop(objs, Tail(items),
                                    write_file(work, Head(items).path, blob.lines))

\* _checkout_index(index)
_checkout_index(objs, idx, work) ==
    LET emptied == _empty_current_directory(work, objs)
        written == CheckoutIndexLoop(emptied.objects, idx, emptied.working)
    IN  [err |-> written.err, working |-> written.working, objects |-> emptied.objects]

\* read_tree(tree_oid, update_working=True)
read_tree_update_working(objs, idx, work, tree_oid) ==
    LET t == get_tree(objs, tree_oid, <<>>)
        loaded == DictUpdate(<<>>, t.results)
        c == _checkout_index(objs, loaded, work)
    IN  IF t.err # ""
        THEN [err |-> t.err, index |-> get_index(idx, [err |-> t.err, index |-> <<>>]),
              working |-> work, objects |-> objs]
        ELSE [err |-> c.err, index |-> get_index(idx, [err |-> c.err, index |-> loaded]),
              working |-> c.working, objects |-> c.objects]

\* read_tree_merged(t_base, t_HEAD, t_other)
read_tree_merged(objs, idx, t_base, t_HEAD, t_other, merged) ==
    LET b == get_tree(objs, t_base, <<>>)
        h == get_tree(objs, t_HEAD, <<>>)
        o == get_tree(objs, t_other, <<>>)
        err == IF b.err # "" THEN b.err ELSE IF h.err # "" THEN h.err ELSE o.err
        m == merge_trees(objs, b.results, h.results, o.results, merged)
    IN  IF err # ""
        THEN [err |-> err, objects |-> objs,
              index |-> get_index(idx, [err |-> err, index |-> <<>>])]
        ELSE [err |-> "", objects |-> m.objects,
              index |-> get_index(idx, [err |-> "", index |-> DictUpdate(<<>>, m.tree)])]

\* add([filename]) of a file whose bytes are content
add(objs, idx, filename, content) ==
    LET h == hash_object(objs, <<Text(content)>>, "blob")
    IN  [objects |-> h.objects,
         index |-> get_index(idx, [err |-> "", index |-> DictSet(idx, filename, h.oid)])]

\* commit(message)
commit(objs, rf, idx, message) ==
    LET w == write_tree(objs, idx)
        HEAD == get_ref(rf, "HEAD", TRUE).oid
        MERGE_HEAD == get_ref(rf, "MERGE_HEAD", TRUE).oid
        d == IF MERGE_HEAD # None
             THEN delete_ref(rf, HexName(MERGE_HEAD), FALSE)
             ELSE [err |-> "", refs |-> rf]
        h == hash_object(w.objects, CommitLines(w.oid, HEAD, MERGE_HEAD, message), "commit")
    IN  IF d.err # ""
        THEN [err |-> d.err, ret |-> None, objects |-> w.objects, refs |-> rf]
        ELSE [err |-> "", ret |-> h.oid, objects |-> h.objects,
              refs |-> update_ref(d.refs, "HEAD", Direct(h.oid), TRUE)]

\* A name given on the command line: its text, and the object id it spells
\* when it is 40 hexadecimal digits (None when it is not)
Name(str) == [str |-> str, digest |-> None]

DigestName(oid) == [str |-> HexName(oid), digest |-> oid]

\* get_oid(name)
get_oid(rf, name) ==
    LET n == IF name.str = "@" THEN "HEAD" ELSE name.str
        refs_to_try == <<n, "refs/" \o n, "refs/tags/" \o n, "refs/heads/" \o n>>
        found == {i \in 1..4 : Truthy(get_ref(rf, refs_to_try[i], FALSE))}
    IN  IF found # {}
        THEN [err |-> "",
              ret |-> get_ref(rf, refs_to_try[CHOOSE i \in found : \A j \in found : i <= j],
                              TRUE).oid]
        ELSE IF name.digest # None
        THEN [err |-> "", ret |-> name.digest]
        ELSE [err |-> "AssertionError", ret |-> None]

\* is_branch(branch)
is_branch(rf, branch) == ("refs/heads/" \o branch) \in DOMAIN rf

\* the write of HEAD by checkout, were it dereferencing
set_head_deref(rf, HEAD) == update_ref(rf, "HEAD", HEAD, TRUE)

\* checkout: data.update_ref('HEAD', HEAD, deref=False)
set_head(rf, HEAD) == update_ref(rf, "HEAD", HEAD, FALSE)

\* checkout(name)
checkout(objs, rf, idx, name) ==
    LET oid == get_oid(rf, name)
        c == get_commit(objs, oid.ret)
        t == read_tree(objs, idx, c.tree)
        HEAD == IF is_branch(rf, name.str) THEN Symbolic("refs/heads/" \o name.str)
                ELSE Direct(oid.ret)
    IN  IF oid.err # "" THEN [err |-> oid.err, refs |-> rf, index |-> idx]
        ELSE IF c.err # "" THEN [err |-> c.err, refs |-> rf, index |-> idx]
        ELSE IF t.err # "" THEN [err |-> t.err, refs |-> rf, index |-> t.index]
        ELSE [err |-> "", refs |-> set_head(rf, HEAD), index |-> t.index]

\* create_branch(name, oid)
create_branch(rf, name, oid) == update_ref(rf, "refs/heads/" \o name, Direct(oid), TRUE)

\* reset(oid)
reset(rf, oid) == update_ref(rf, "HEAD", Direct(oid), TRUE)

\* the test of merge for a fast-forward, as a bug would have it: any merge
\* base at all
is_fast_forward_any_base(merge_base, HEAD) == merge_base # None

\* merge: if merge_base == HEAD
is_fast_forward(merge_base, HEAD) == merge_base = HEAD

\* the fast-forward of merge with a non-dereferencing write of HEAD
fast_forward_no_deref(rf, other) == update_ref(rf, "HEAD", Direct(other), FALSE)

\* merge: data.update_ref('HEAD', RefValue(symbolic=False, value=other))
fast_forward(rf, other) == update_ref(rf, "HEAD", Direct(other), TRUE)

\* merge(other)
merge(objs, rf, idx, other, merged) ==
    LET HEAD == get_ref(rf, "HEAD", TRUE).oid
        merge_base == get_merge_base(objs, other, HEAD)
        c_other == get_commit(objs, other)
        ff == read_tree(objs, idx, c_other.tree)
        rf2 == update_ref(rf, "MERGE_HEAD", Direct(other), TRUE)
        c_HEAD == get_commit(objs, HEAD)
        c_base == get_commit(objs, merge_base.ret)
        m == read_tree_merged(objs, idx, c_HEAD.tree, c_base.tree, c_other.tree, merged)
        same == [objects |-> objs, refs |-> rf, index |-> idx]
    IN  IF HEAD = None THEN [err |-> "AssertionError"] @@ same
        ELSE IF merge_base.err # "" THEN [err |-> merge_base.err] @@ same
        ELSE IF c_other.err # "" THEN [err |-> c_other.err] @@ same
        ELSE IF is_fast_forward(merge_base.ret, HEAD)
        THEN IF ff.err # "" THEN [err |-> ff.err] @@ same
             ELSE [err |-> "", objects |-> objs,
                   refs |-> fast_forward(rf, other), index |-> ff.index]
        ELSE IF c_HEAD.err # "" THEN [err |-> c_HEAD.err] @@ [same EXCEPT !.refs = rf2]
        ELSE IF c_base.err # "" THEN [err |-> c_base.err] @@ [same EXCEPT !.refs = rf2]
        ELSE [err |-> m.err, objects |-> m.objects, refs |-> rf2, index |-> m.index]

----------------------------------------------------------------------------
(* Initial state: both repositories right after base.init() *)

Init ==
    /\ objects = [r \in Repos |-> <<>>]
    /\ refs = [r \in Repos |-> [n \in {"HEAD"} |-> Symbolic("refs/heads/master")]]
    /\ index = [r \in Repos |-> <<>>]
    /\ working = [r \in Repos |-> <<>>]
    /\ last = [op |-> "init", repo |-> "R1", err |-> ""]
    /\ iter = [running |-> FALSE, repo |-> "R1", seeds |-> <<>>, oids |-> <<>>,
              visited |-> {}, yielded |-> <<>>, err |-> ""]

\* the commits stored in repository r
Commits(r) == {o \in DOMAIN objects[r] : objects[r][o].type = "commit"}

\* the other repository
Remote(r) == CHOOSE q \in Repos : q # r

\* the record of a call: the operation, the repository it ran in and the
\* exception that ended it; a call runs to its end and leaves the generator
\* that is being consumed where it is
Called(op, r, err) ==
    /\ last' = [op |-> op, repo |-> r, err |-> err]
    /\ UNCHANGED iter

\* the objects of one kind among the object files objs
OfType(objs, type_) == {o \in DOMAIN objs : objs[o].type = type_}

\* the model stops at MaxCommits commits and MaxTrees trees in a repository
Bounded(objs) ==
    /\ Cardinality(OfType(objs, "commit")) <= MaxCommits
    /\ Cardinality(OfType(objs, "tree")) <= MaxTrees

----------------------------------------------------------------------------
(* The calls *)

\* the file filename is written with the bytes content, then add([filename])
Add(r, filename, content) ==
    LET res == add(objects[r], index[r], filename, content)
    IN  /\ Bounded(res.objects)
        /\ objects' = [objects EXCEPT ![r] = res.objects]
        /\ index' = [index EXCEPT ![r] = res.index]
        /\ working' = [working EXCEPT ![r] = write_file(working[r], filename, <<Text(content)>>)]
        /\ Called("add", r, "")
        /\ UNCHANGED refs

Commit(r, message) ==
    LET res == commit(objects[r], refs[r], index[r], message)
    IN  /\ Bounded(res.objects)
        /\ objects' = [objects EXCEPT ![r] = res.objects]
        /\ refs' = [refs EXCEPT ![r] = res.refs]
        /\ Called("commit", r, res.err)
        /\ UNCHANGED <<index, working>>

Checkout(r, name) ==
    LET res == checkout(objects[r], refs[r], index[r], name)
    IN  /\ refs' = [refs EXCEPT ![r] = res.refs]
        /\ index' = [index EXCEPT ![r] = res.index]
        /\ Called("checkout", r, res.err)
        /\ UNCHANGED <<objects, working>>

CreateBranch(r, name, oid) ==
    /\ refs' = [refs EXCEPT ![r] = create_branch(refs[r], name, oid)]
    /\ Called("branch", r, "")
    /\ UNCHANGED <<objects, index, working>>

Merge(r, other, merged) ==
    LET res == merge(objects[r], refs[r], index[r], other, merged)
    IN  /\ Bounded(res.objects)
        /\ objects' = [objects EXCEPT ![r] = res.objects]
        /\ refs' = [refs EXCEPT ![r] = res.refs]
        /\ index' = [index EXCEPT ![r] = res.index]
        /\ Called("merge", r, res.err)
        /\ UNCHANGED working

WriteTree(r) ==
    LET res == write_tree(objects[r], index[r])
    IN  /\ Bounded(res.objects)
        /\ objects' = [objects EXCEPT ![r] = res.objects]
        /\ Called("write_tree", r, "")
        /\ UNCHANGED <<refs, index, working>>

ReadTree(r, tree_oid) ==
    LET res == read_tree(objects[r], index[r], tree_oid)
    IN  /\ index' = [index EXCEPT ![r] = res.index]
        /\ Called("read_tree", r, res.err)
        /\ UNCHANGED <<objects, refs, working>>

ReadTreeWorking(r, tree_oid) ==
    LET res == read_tree_update_working(objects[r], index[r], working[r], tree_oid)
    IN  /\ index' = [index EXCEPT ![r] = res.index]
        /\ working' = [working EXCEPT ![r] = res.working]
        /\ objects' = [objects EXCEPT ![r] = res.objects]
        /\ Called("read_tree", r, res.err)
        /\ UNCHANGED refs

Push(r, refname) ==
    LET q == Remote(r)
        res == push(objects[r], refs[r], objects[q], refs[q], refname)
    IN  /\ objects' = [objects EXCEPT ![q] = res.objects]
        /\ refs' = [refs EXCEPT ![q] = res.refs]
        /\ Called("push", r, res.err)
        /\ UNCHANGED <<index, working>>

Fetch(r) ==
    LET q == Remote(r)
        res == fetch(objects[r], refs[r], objects[q], refs[q])
    IN  /\ objects' = [objects EXCEPT ![r] = res.objects]
        /\ refs' = [refs EXCEPT ![r] = res.refs]
        /\ Called("fetch", r, res.err)
        /\ UNCHANGED <<index, working>>

----------------------------------------------------------------------------
(* Spec: the calls made in one repository *)

Next ==
    \/ \E r \in Work, p \in Paths, c \in Contents : Add(r, p, c)
    \/ \E r \in Work, m \in Messages : Commit(r, m)
    \/ \E r \in Work :
         \E n \in {Name(b) : b \in WorkBranches} \cup {DigestName(o) : o \in Commits(r)} :
             Checkout(r, n)
    \/ \E r \in Work, n \in WorkBranches : \E o \in Commits(r) : CreateBranch(r, n, o)
    \/ \E r \in Work, c \in Contents : \E o \in Commits(r) : Merge(r, o, c)

Spec == Init /\ [][Next]_vars

----------------------------------------------------------------------------
(* SpecRemote: commits and branches in both repositories, push and fetch  *)
(* between them                                                            *)

\* the loop of fetch over an iterable of commit ids:
\* for oid in base.iter_objects_in_commits(oids): fetch_object_if_missing(oid, remote_path)
FetchObjects(r, oids) ==
    LET res == iter_objects_in_commits(objects[r], SetOf(oids),
                                       [fetch |-> TRUE, remote |-> objects[Remote(r)]])
    IN  /\ Bounded(res.objs)
        /\ objects' = [objects EXCEPT ![r] = res.objs]
        /\ Called("fetch_objects", r, res.err)
        /\ UNCHANGED <<refs, index, working>>

NextRemote ==
    \/ \E r \in Repos, m \in Messages : Commit(r, m)
    \/ \E r \in Repos, n \in Branches : \E o \in Commits(r) : CreateBranch(r, n, o)
    \/ \E r \in Repos, n \in Branches : Push(r, "refs/heads/" \o n)
    \/ \E r \in Repos : Fetch(r)

SpecRemote == Init /\ [][NextRemote]_vars

----------------------------------------------------------------------------
(* SpecIndex: the index and the tree codec of one repository *)

IndexPaths == {<<"a">>, <<"b">>, <<"d", "a">>}

IndexContents == {1, 2}

NextIndex ==
    \/ \E r \in Work, p \in IndexPaths, c \in IndexContents : Add(r, p, c)
    \/ \E r \in Work : WriteTree(r)
    \/ \E r \in Work : \E o \in DOMAIN objects[r] \cup {None} : ReadTree(r, o)

SpecIndex == Init /\ [][NextIndex]_vars

\* the index under add, write_tree and read_tree of files at the top and in
\* one directory
GetIndexPaths == {<<"a">>, <<"d", "a">>}

NextGetIndex ==
    \/ \E r \in Work, p \in GetIndexPaths, c \in IndexContents : Add(r, p, c)
    \/ \E r \in Work : WriteTree(r)
    \/ \E r \in Work : \E o \in DOMAIN objects[r] \cup {None} : ReadTree(r, o)

SpecGetIndex == Init /\ [][NextGetIndex]_vars

----------------------------------------------------------------------------
(* SpecRefs: name resolution and the listing of refs in one repository *)

GetOid(r, name) ==
    /\ Called("get_oid", r, get_oid(refs[r], name).err)
    /\ UNCHANGED <<objects, refs, index, working>>

IterRefs(r, prefix) ==
    /\ Called("iter_refs", r, "")
    /\ UNCHANGED <<objects, refs, index, working>>

\* the names given to get_oid and checkout
Names(r) ==
    {Name(n) : n \in {"@", "master", "dev", "heads/master", "v1"}}
        \cup {DigestName(o) : o \in Commits(r)}

\* the prefixes given to iter_refs: '' (push) and 'refs/heads/' (fetch,
\* iter_branch_names)
Prefixes == {"", "refs/heads/"}

NextRefs ==
    \/ \E r \in Work, m \in Messages : Commit(r, m)
    \/ \E r \in Work, n \in Branches : \E o \in Commits(r) : CreateBranch(r, n, o)
    \/ \E r \in Work : \E n \in Names(r) : Checkout(r, n)
    \/ \E r \in Work, c \in Contents : \E o \in Commits(r) : Merge(r, o, c)
    \/ \E r \in Work : \E n \in Names(r) : GetOid(r, n)
    \/ \E r \in Work, p \in Prefixes : IterRefs(r, p)

SpecRefs == Init /\ [][NextRefs]_vars

----------------------------------------------------------------------------
(* SpecObjects: hash_object called with any kind and payload *)

HashObject(r, lines, type_) ==
    LET h == hash_object(objects[r], lines, type_)
    IN  /\ Bounded(h.objects)
        /\ objects' = [objects EXCEPT ![r] = h.objects]
        /\ Called("hash_object", r, "")
        /\ UNCHANGED <<refs, index, working>>

Kinds == {"blob", "tree", "commit"}
Payloads == {<<Text(1)>>, <<Text(2)>>}

NextObjects ==
    \/ \E r \in Work, l \in Payloads, k \in Kinds : HashObject(r, l, k)
    \/ \E r \in Work, p \in Paths, c \in IndexContents : Add(r, p, c)

SpecObjects == Init /\ [][NextObjects]_vars

----------------------------------------------------------------------------
(* SpecGraph: the traversals over commit graphs that hold merge commits.   *)
(* The commit objects are stored with hash_object, in the text commit      *)
(* builds for them: a tree line, a parent line for HEAD and one for        *)
(* MERGE_HEAD.  A commit is stored after its parents, so the graph is      *)
(* acyclic.                                                                *)

HashCommit(r, HEAD, MERGE_HEAD, message) ==
    LET w == write_tree(objects[r], index[r])
        h == hash_object(w.objects, CommitLines(w.oid, HEAD, MERGE_HEAD, message), "commit")
    IN  /\ MERGE_HEAD # None => HEAD # None /\ HEAD # MERGE_HEAD
        /\ Bounded(h.objects)
        /\ objects' = [objects EXCEPT ![r] = h.objects]
        /\ Called("hash_object", r, "")
        /\ UNCHANGED <<refs, index, working>>

GetMergeBase(r, oid1, oid2) ==
    /\ Called("get_merge_base", r, get_merge_base(objects[r], oid1, oid2).err)
    /\ UNCHANGED <<objects, refs, index, working>>

IterCommits(r, oids) ==
    /\ Called("iter_commits_and_parents", r,
              iter_commits_and_parents(objects[r], SetOf(oids)).err)
    /\ UNCHANGED <<objects, refs, index, working>>

IterObjects(r, oids) ==
    /\ Called("iter_objects_in_commits", r,
              iter_objects_in_commits(objects[r], SetOf(oids), Collect).err)
    /\ UNCHANGED <<objects, refs, index, working>>

\* iter_commits_and_parents(oids): the generator is created, with
\* oids = deque(oids) and visited = set()
StartIter(r, oids) ==
    /\ ~iter.running
    /\ iter' = [running |-> TRUE, repo |-> r, seeds |-> oids, oids |-> oids,
               visited |-> {}, yielded |-> <<>>, err |-> ""]
    /\ UNCHANGED <<objects, refs, index, working, last>>

\* the consumer asks for the next id: one iteration of the while loop
ResumeIter(r) ==
    /\ iter.running /\ iter.repo = r
    /\ iter' = IterStep(objects[r], iter)
    /\ UNCHANGED <<objects, refs, index, working, last>>

NextGraph ==
    \/ \E r \in Work, p \in Paths, c \in Contents : Add(r, p, c)
    \/ \E r \in Work, m \in Messages :
         \E p1 \in Commits(r) \cup {None}, p2 \in Commits(r) \cup {None} :
             HashCommit(r, p1, p2, m)
    \/ \E r \in Work : \E a \in Commits(r), b \in Commits(r) : GetMergeBase(r, a, b)
    \/ \E r \in Work : \E a \in Commits(r) : IterCommits(r, <<a>>)
    \/ \E r \in Work : \E a \in Commits(r) : IterObjects(r, <<a>>)

SpecGraph == Init /\ [][NextGraph]_vars

----------------------------------------------------------------------------
(* SpecStore: every operation that touches a repository, the working       *)
(* directory included                                                      *)

NextStore ==
    \/ \E r \in Work, p \in Paths, c \in Contents : Add(r, p, c)
    \/ \E r \in Work : WriteTree(r)
    \/ \E r \in Work, m \in Messages : Commit(r, m)
    \/ \E r \in Work, n \in WorkBranches : Checkout(r, Name(n))
    \/ \E r \in Work : \E o \in DOMAIN objects[r] \cup {None} : ReadTreeWorking(r, o)
    \/ \E r \in Work, c \in Contents : \E o \in Commits(r) : Merge(r, o, c)
    \/ \E r \in Work, n \in WorkBranches : Push(r, "refs/heads/" \o n)
    \/ \E r \in Work : Fetch(r)

SpecStore == Init /\ [][NextStore]_vars

----------------------------------------------------------------------------
(* What the properties below speak of *)

\* the value HEAD resolves to, and the one MERGE_HEAD resolves to
HeadOf(rf) == get_ref(rf, "HEAD", TRUE).oid

MergeHeadOf(rf) == get_ref(rf, "MERGE_HEAD", TRUE).oid

\* the parents of a stored commit
ParentsOf(objs, c) ==
    LET ps == get_commit(objs, c).parents IN {ps[i] : i \in 1..Len(ps)}

RECURSIVE Closure(_, _, _)
Closure(objs, frontier, acc) ==
    IF frontier \subseteq acc THEN acc
    ELSE Closure(objs, UNION {ParentsOf(objs, c) : c \in frontier \ acc}, acc \cup frontier)

\* the commits reachable from c through parent links, c included
Ancestors(objs, c) == Closure(objs, {c}, {})

RECURSIVE TreeObjects(_, _)
\* the tree t and what its entries lead to
TreeObjects(objs, t) ==
    {t} \cup UNION {IF objs[t].lines[i].key = "tree"
                    THEN TreeObjects(objs, objs[t].lines[i].oid)
                    ELSE {objs[t].lines[i].oid} : i \in 1..Len(objs[t].lines)}

\* the objects reachable from the commit c: its ancestors, their trees and
\* what these hold
ReachableObjects(objs, c) ==
    Ancestors(objs, c)
        \cup UNION {TreeObjects(objs, get_commit(objs, a).tree) : a \in Ancestors(objs, c)}

\* the value of the branch ref refname in a store
RefOf(rf, refname) == get_ref(rf, refname, TRUE).oid

\* the ref files rf with the one file name holding value
WithRef(rf, name, value) ==
    [n \in DOMAIN rf \cup {name} |-> IF n = name THEN value ELSE rf[n]]

\* the ref file a dereferencing write of HEAD lands on
HeadTarget(rf) == IF rf["HEAD"].symbolic THEN rf["HEAD"].target ELSE "HEAD"

----------------------------------------------------------------------------
(* C1: a commit made while MERGE_HEAD is set (after a non-fast-forward     *)
(* merge) succeeds, the commit it stores has the parents [HEAD_old, other] *)
(* in that order, HEAD (through its branch) is the new commit, and         *)
(* MERGE_HEAD is unset afterwards.                                         *)
(* The code raises instead: delete_ref is given the value of MERGE_HEAD    *)
(* as the name of the ref to delete.                                       *)

C1_MergeCommitHasTwoParents ==
    [][\A r \in Repos, m \in Messages :
          (Commit(r, m) /\ MergeHeadOf(refs[r]) # None)
          => /\ last'.err = ""
             /\ HeadOf(refs'[r]) \in OfType(objects'[r], "commit")
             /\ get_commit(objects'[r], HeadOf(refs'[r])).parents
                    = <<HeadOf(refs[r]), MergeHeadOf(refs[r])>>
             /\ "MERGE_HEAD" \notin DOMAIN refs'[r]]_vars

\* the commit after a non-fast-forward merge has been called, and has raised
C1_CommitRaised ==
    /\ last = [op |-> "commit", repo |-> "R1", err |-> "FileNotFoundError"]
    /\ MergeHeadOf(refs["R1"]) # None
    /\ HeadOf(refs["R1"]) \notin Ancestors(objects["R1"], MergeHeadOf(refs["R1"]))

----------------------------------------------------------------------------
(* C2: for divergent HEAD and other (HEAD is not an ancestor of other)     *)
(* with a common ancestor, merge(other) writes MERGE_HEAD = other as a     *)
(* direct ref, stores no commit object and changes neither HEAD nor any    *)
(* branch ref.                                                             *)

C2_NonFastForwardMerge ==
    [][\A r \in Repos, c \in Contents : \A o \in Commits(r) :
          (/\ last'.op = "merge"
           /\ HeadOf(refs[r]) # None
           /\ HeadOf(refs[r]) \notin Ancestors(objects[r], o)
           /\ Merge(r, o, c)
           /\ Ancestors(objects[r], HeadOf(refs[r])) \cap Ancestors(objects[r], o) # {})
          => /\ refs'[r] = WithRef(refs[r], "MERGE_HEAD", Direct(o))
             /\ OfType(objects'[r], "commit") = OfType(objects[r], "commit")]_vars

\* a non-fast-forward merge has been called: MERGE_HEAD is a commit that
\* HEAD is no ancestor of, HEAD being symbolic to a branch
C2_Merged ==
    /\ last = [op |-> "merge", repo |-> "R1", err |-> ""]
    /\ refs["R1"]["HEAD"].symbolic
    /\ MergeHeadOf(refs["R1"]) \in Commits("R1")
    /\ HeadOf(refs["R1"]) \notin Ancestors(objects["R1"], MergeHeadOf(refs["R1"]))
    /\ MergeHeadOf(refs["R1"]) \notin Ancestors(objects["R1"], HeadOf(refs["R1"]))

----------------------------------------------------------------------------
(* C3: when HEAD is an ancestor of other, merge(other) returns having      *)
(* moved HEAD (the branch HEAD points to, when HEAD is symbolic) to other, *)
(* with no object stored and MERGE_HEAD left as it was (unset when it was  *)
(* unset); and the fast-forward is taken exactly then: when HEAD is not an *)
(* ancestor of other, HEAD keeps its value and MERGE_HEAD is written.      *)

C3_FastForwardMerge ==
    [][\A r \in Repos, c \in Contents : \A o \in Commits(r) :
          (last'.op = "merge" /\ HeadOf(refs[r]) # None /\ Merge(r, o, c))
          => IF HeadOf(refs[r]) \in Ancestors(objects[r], o)
             THEN /\ last'.err = ""
                  /\ refs'[r] = WithRef(refs[r], HeadTarget(refs[r]), Direct(o))
                  /\ objects' = objects
             ELSE /\ HeadOf(refs'[r]) = HeadOf(refs[r])
                  /\ refs'[r]["MERGE_HEAD"] = Direct(o)]_vars

\* a fast-forward merge has moved the branch master to a commit with a
\* parent, MERGE_HEAD being unset
C3_FastForwarded ==
    /\ last = [op |-> "merge", repo |-> "R1", err |-> ""]
    /\ "MERGE_HEAD" \notin DOMAIN refs["R1"]
    /\ refs["R1"]["HEAD"] = Symbolic("refs/heads/master")
    /\ ParentsOf(objects["R1"], HeadOf(refs["R1"])) # {}

----------------------------------------------------------------------------
(* C4: for a chain A -> B -> C of commits (A the parent of B, B the parent *)
(* of C), is_ancestor_of(C, A) returns True and is_ancestor_of(A, C)       *)
(* returns False; in general is_ancestor_of(commit, candidate) returns     *)
(* whether candidate is among the ancestors of commit.                     *)
(* The code raises instead: it hands the digest, a str, to                 *)
(* iter_commits_and_parents, which iterates over its characters.           *)

C4_IsAncestorOfChain ==
    \A r \in Repos : \A A \in Commits(r), B \in Commits(r), C \in Commits(r) :
        (ParentsOf(objects[r], B) = {A} /\ ParentsOf(objects[r], C) = {B})
        => /\ is_ancestor_of(objects[r], C, A) = [err |-> "", ret |-> TRUE]
           /\ is_ancestor_of(objects[r], A, C) = [err |-> "", ret |-> FALSE]
           /\ \A x \in Commits(r), y \in Commits(r) :
                  is_ancestor_of(objects[r], x, y)
                      = [err |-> "", ret |-> y \in Ancestors(objects[r], x)]

\* a chain of three commits is stored
C4_Chain ==
    \E A \in Commits("R1"), B \in Commits("R1"), C \in Commits("R1") :
        ParentsOf(objects["R1"], B) = {A} /\ ParentsOf(objects["R1"], C) = {B}

----------------------------------------------------------------------------
(* C5: push(remote, refname) succeeds whenever the local ref exists and    *)
(* the remote either has no ref of that name or has one whose value is an  *)
(* ancestor of the local value, whatever other refs the remote holds;      *)
(* afterwards the remote's refname is the local value and every object     *)
(* reachable from it is in the remote store.                               *)
(* The code raises as soon as the remote holds any ref at all: it asks     *)
(* is_ancestor_of about the whole dict of remote refs, and is_ancestor_of  *)
(* raises (C4).                                                            *)

C5_PushSucceeds ==
    [][\A r \in Repos, n \in Branches :
          LET refname == "refs/heads/" \o n
              local == RefOf(refs[r], refname)
              theirs == RefOf(refs[Remote(r)], refname)
          IN  (/\ Push(r, refname)
               /\ local \in Commits(r)
               /\ theirs = None \/ theirs \in Ancestors(objects[r], local))
              => /\ last'.err = ""
                 /\ RefOf(refs'[Remote(r)], refname) = local
                 /\ ReachableObjects(objects[r], local)
                        \subseteq DOMAIN objects'[Remote(r)]]_vars

\* push has raised where the remote's master is a proper ancestor of the
\* local master
C5_PushRaised ==
    /\ last = [op |-> "push", repo |-> "R1", err |-> "FileNotFoundError"]
    /\ RefOf(refs["R1"], "refs/heads/master") \in Commits("R1")
    /\ RefOf(refs["R2"], "refs/heads/master") # None
    /\ RefOf(refs["R2"], "refs/heads/master") # RefOf(refs["R1"], "refs/heads/master")
    /\ RefOf(refs["R2"], "refs/heads/master")
           \in Ancestors(objects["R1"], RefOf(refs["R1"], "refs/heads/master"))

----------------------------------------------------------------------------
(* C6: when the remote has a ref named refname whose value is not an       *)
(* ancestor of the local value, push(remote, refname) fails, and it fails  *)
(* before anything is transferred: no object is added to and no ref is     *)
(* changed in either store.                                                *)

C6_PushRejectsNonAncestor ==
    [][\A r \in Repos, n \in Branches :
          LET refname == "refs/heads/" \o n
              local == RefOf(refs[r], refname)
              theirs == RefOf(refs[Remote(r)], refname)
          IN  (/\ last'.op = "push"
               /\ Push(r, refname)
               /\ local \in Commits(r)
               /\ theirs # None
               /\ theirs \notin Ancestors(objects[r], local))
              => /\ last'.err # ""
                 /\ objects' = objects
                 /\ refs' = refs]_vars

\* push has been refused where the remote's master, a commit with a parent,
\* is no ancestor of the local master
C6_PushRefused ==
    /\ last.op = "push" /\ last.repo = "R1" /\ last.err # ""
    /\ RefOf(refs["R1"], "refs/heads/master") \in Commits("R1")
    /\ RefOf(refs["R2"], "refs/heads/master") \in DOMAIN objects["R2"]
    /\ ParentsOf(objects["R2"], RefOf(refs["R2"], "refs/heads/master")) # {}
    /\ RefOf(refs["R2"], "refs/heads/master")
           \notin Ancestors(objects["R1"], RefOf(refs["R1"], "refs/heads/master"))

----------------------------------------------------------------------------
(* C7: fetch(remote), for a remote whose branch refs point at commits      *)
(* stored there with all that they reach, completes; afterwards the local  *)
(* store has every object reachable from each remote branch, and for each  *)
(* remote branch refs/heads/X the local tracking ref of X is a direct ref  *)
(* to the same commit.                                                     *)
(* The code raises instead: it hands refs.values, the method and not its   *)
(* result, to iter_objects_in_commits.                                     *)

C7_FetchMirrors ==
    [][\A r \in Repos :
          (/\ Fetch(r)
           /\ \E n \in Branches : RefOf(refs[Remote(r)], "refs/heads/" \o n) # None)
          => /\ last'.err = ""
             /\ \A n \in Branches :
                    LET theirs == RefOf(refs[Remote(r)], "refs/heads/" \o n)
                    IN  theirs # None
                        => /\ ReachableObjects(objects[Remote(r)], theirs)
                                  \subseteq DOMAIN objects'[r]
                           /\ "refs/remote//" \o n \in DOMAIN refs'[r]
                           /\ refs'[r]["refs/remote//" \o n] = Direct(theirs)]_vars

\* fetch has raised with a branch in the remote
C7_FetchRaised ==
    /\ last = [op |-> "fetch", repo |-> "R1", err |-> "TypeError"]
    /\ RefOf(refs["R2"], "refs/heads/master") # None

----------------------------------------------------------------------------
(* C8: get_index persists the mapping on every exit path: when the body    *)
(* fails (read_tree clears the index, then get_tree raises), the mapping   *)
(* as mutated up to the failure, the cleared one, is what is on disk       *)
(* afterwards.                                                             *)
(* The code does not do that: the generator has no try / finally, and the  *)
(* exception leaves it before the dump.                                    *)

C8_PersistsOnFailure ==
    [][\A r \in Repos : \A o \in DOMAIN objects[r] \cup {None} :
          (ReadTree(r, o) /\ get_tree(objects[r], o, <<>>).err # "")
          => index'[r] = <<>>]_vars

(* C8, as the code has it: get_index persists the mapping when the body    *)
(* returns normally, and only then.  When read_tree fails the persisted    *)
(* index keeps the content it had before the call and the exception        *)
(* propagates; when read_tree or add return, the persisted index is the    *)
(* mapping as the body left it.                                            *)

C8_PersistsOnNormalExitOnly ==
    [][/\ \A r \in Repos : \A o \in DOMAIN objects[r] \cup {None} :
             (last'.op = "read_tree" /\ last'.repo = r /\ ReadTree(r, o))
             => LET t == get_tree(objects[r], o, <<>>)
                IN  IF t.err # ""
                    THEN index'[r] = index[r] /\ last'.err = t.err
                    ELSE AsMap(index'[r]) = AsMap(t.results) /\ last'.err = ""
       /\ \A r \in Repos, p \in IndexPaths, c \in IndexContents :
             (last'.op = "add" /\ last'.repo = r /\ Add(r, p, c))
             => \E i \in 1..Len(index'[r]) :
                   /\ index'[r][i].path = p
                   /\ objects'[r][index'[r][i].oid].lines = <<Text(c)>>]_vars

\* read_tree has failed on an index that held entries
C8_ReadTreeFailed ==
    /\ last.op = "read_tree" /\ last.repo = "R1" /\ last.err # ""
    /\ Len(index["R1"]) >= 2

----------------------------------------------------------------------------
(* C9: for every index (the empty one and ones with nested directories     *)
(* included), write_tree followed by read_tree of the root tree it returns *)
(* gives back exactly the path -> oid mapping of the index, and the root   *)
(* tree id is the same for every insertion order of the index entries.     *)

Orders(d) ==
    {[i \in 1..Len(d) |-> d[f[i]]] :
        f \in {g \in [1..Len(d) -> 1..Len(d)] : \A i, j \in 1..Len(d) : g[i] = g[j] => i = j}}

C9_TreeRoundTrip ==
    \A r \in Repos :
        LET w == write_tree(objects[r], index[r])
            back == read_tree(w.objects, index[r], w.oid)
        IN  /\ back.err = ""
            /\ AsMap(back.index) = AsMap(index[r])
            /\ Len(back.index) = Len(index[r])
            /\ \A d \in Orders(index[r]) :
                   write_tree(objects[r], d).oid = w.oid

\* write_tree has written the tree of an index with a nested directory and
\* entries added out of the order of their names
C9_WroteNestedTree ==
    /\ last = [op |-> "write_tree", repo |-> "R1", err |-> ""]
    /\ Len(index["R1"]) = 3
    /\ index["R1"][1].path = <<"d", "a">>
    /\ index["R1"][2].path = <<"b">>
    /\ index["R1"][3].path = <<"a">>
    /\ index["R1"][2].oid # index["R1"][3].oid

----------------------------------------------------------------------------
(* C10: commit writes HEAD through: when HEAD is symbolic to a branch B    *)
(* (also when B does not exist yet), after commit(message) B is a direct   *)
(* ref to the new commit, HEAD is still symbolic to B, and the first       *)
(* parent of the new commit is the value B had (no parent when B was       *)
(* unset).                                                                 *)
(* This fails where C1 fails: with MERGE_HEAD set, commit raises before it *)
(* writes HEAD, and B keeps its value.                                     *)

C10_CommitMovesBranch ==
    [][\A r \in Repos, m \in Messages :
          (Commit(r, m) /\ refs[r]["HEAD"].symbolic)
          => LET B == refs[r]["HEAD"].target
                 old == get_ref(refs[r], B, FALSE).oid
                 new == get_ref(refs'[r], B, FALSE)
             IN  /\ ~new.symbolic
                 /\ new.oid \in OfType(objects'[r], "commit")
                 /\ refs'[r]["HEAD"] = Symbolic(B)
                 /\ FirstOf(get_commit(objects'[r], new.oid).parents)
                        = IF old = None THEN <<>> ELSE <<old>>]_vars

\* commit has raised with HEAD symbolic to a branch
C10_CommitRaisedOnBranch ==
    /\ last = [op |-> "commit", repo |-> "R1", err |-> "FileNotFoundError"]
    /\ refs["R1"]["HEAD"].symbolic

----------------------------------------------------------------------------
(* C11: checkout(name) writes HEAD without dereferencing it: symbolic to   *)
(* refs/heads/name when name is a branch, direct to the commit name        *)
(* resolves to otherwise; no other ref file changes during checkout.  A    *)
(* commit made with HEAD detached changes no ref under refs/heads/, and    *)
(* when it returns HEAD is the direct ref to the commit it stored.         *)

\* the ref files other than HEAD are the same before and after the step
OnlyHeadMoves(r) ==
    /\ DOMAIN refs'[r] = DOMAIN refs[r]
    /\ \A n \in DOMAIN refs[r] \ {"HEAD"} : refs'[r][n] = refs[r][n]

C11_CheckoutWritesHeadOnly ==
    [][/\ \A r \in Repos :
             \A n \in {Name(b) : b \in WorkBranches} \cup {DigestName(o) : o \in Commits(r)} :
                (last'.op = "checkout" /\ Checkout(r, n))
                => /\ OnlyHeadMoves(r)
                   /\ last'.err = ""
                      => refs'[r]["HEAD"] =
                            IF "refs/heads/" \o n.str \in DOMAIN refs[r]
                            THEN Symbolic("refs/heads/" \o n.str)
                            ELSE Direct(n.digest)
                   /\ last'.err # "" => refs'[r] = refs[r]
       /\ \A r \in Repos, m \in Messages :
             (last'.op = "commit" /\ ~refs[r]["HEAD"].symbolic /\ Commit(r, m))
             => /\ OnlyHeadMoves(r)
                /\ last'.err = ""
                   => /\ ~refs'[r]["HEAD"].symbolic
                      /\ refs'[r]["HEAD"].oid \in Commits(r)' \ {refs[r]["HEAD"].oid}]_vars

\* a commit has returned with HEAD detached at it, master being at another
\* commit
C11_DetachedCommit ==
    /\ last = [op |-> "commit", repo |-> "R1", err |-> ""]
    /\ ~refs["R1"]["HEAD"].symbolic
    /\ "refs/heads/master" \in DOMAIN refs["R1"]
    /\ refs["R1"]["refs/heads/master"].oid # refs["R1"]["HEAD"].oid
    /\ refs["R1"]["refs/heads/master"].oid
           \in Ancestors(objects["R1"], refs["R1"]["HEAD"].oid)

----------------------------------------------------------------------------
(* C12: get_oid(name) either returns a non-empty object id or fails, in    *)
(* every state of the refs, the one right after init included: it returns *)
(* the dereferenced value of the first of name, refs/name, refs/tags/name, *)
(* refs/heads/name ('@' read as HEAD) whose dereferenced value is          *)
(* non-empty, else the name itself when it is 40 hexadecimal digits, else  *)
(* it fails.                                                               *)
(* The code tests the candidates without dereferencing them and returns    *)
(* the dereferenced value: for a symbolic ref whose target does not exist  *)
(* (HEAD before the first commit) it returns None.                         *)

\* the refs get_oid is to try for a name
Candidates(name) ==
    LET n == IF name.str = "@" THEN "HEAD" ELSE name.str
    IN  <<n, "refs/" \o n, "refs/tags/" \o n, "refs/heads/" \o n>>

\* what get_oid is to give: the first candidate that resolves, else the
\* digest the name spells, else the failure
Resolved(rf, name) ==
    LET hits == {i \in 1..4 : RefOf(rf, Candidates(name)[i]) # None}
    IN  IF hits # {}
        THEN [err |-> "",
              ret |-> RefOf(rf, Candidates(name)[CHOOSE i \in hits : \A j \in hits : i <= j])]
        ELSE IF name.digest # None THEN [err |-> "", ret |-> name.digest]
        ELSE [err |-> "AssertionError", ret |-> None]

C12_GetOidResolvesOrFails ==
    [][\A r \in Repos : \A n \in Names(r) :
          (last'.op = "get_oid" /\ GetOid(r, n))
          => /\ get_oid(refs[r], n) = Resolved(refs[r], n)
             /\ get_oid(refs[r], n).err = "" => get_oid(refs[r], n).ret # None]_vars

\* get_oid has returned in a repository whose HEAD resolves to nothing
C12_ReturnedBeforeFirstCommit ==
    /\ last = [op |-> "get_oid", repo |-> "R1", err |-> ""]
    /\ refs["R1"]["HEAD"].symbolic
    /\ HeadOf(refs["R1"]) = None

----------------------------------------------------------------------------
(* C13: iter_refs(prefix) yields, for every prefix, HEAD and MERGE_HEAD    *)
(* whenever they resolve to a value, and every ref under the prefix that   *)
(* resolves to a value, and no ref that resolves to none.                  *)
(* The code filters HEAD and MERGE_HEAD by the prefix like any other ref.  *)

\* the ref names that begin with the prefix
Under(rf, prefix) ==
    IF prefix = "" THEN DOMAIN rf \cup {"HEAD", "MERGE_HEAD"}
    ELSE {n \in DOMAIN rf : \E b \in Branches : n = prefix \o b}

\* the (name, value) pairs a listing yields
Yielded(listing) == {<<listing[i].name, listing[i].oid>> : i \in 1..Len(listing)}

C13_IterRefsWithSingletons ==
    [][\A r \in Repos, p \in Prefixes :
          (last'.op = "iter_refs" /\ IterRefs(r, p))
          => Yielded(iter_refs(refs[r], p))
                = {<<n, RefOf(refs[r], n)>> :
                       n \in {m \in Under(refs[r], p) \cup {"HEAD", "MERGE_HEAD"} :
                                 RefOf(refs[r], m) # None}}]_vars

(* C13, as the code has it: iter_refs(prefix) yields, once each and with   *)
(* its dereferenced value, every ref among HEAD, MERGE_HEAD and the files  *)
(* under refs/ whose name begins with the prefix and that resolves to a    *)
(* value; HEAD and MERGE_HEAD are yielded only for a prefix their names    *)
(* begin with (the empty one here), and no ref that resolves to none is    *)
(* yielded.                                                                *)

C13_IterRefsUnderPrefix ==
    [][\A r \in Repos, p \in Prefixes :
          (last'.op = "iter_refs" /\ IterRefs(r, p))
          => LET listing == iter_refs(refs[r], p)
             IN  /\ Yielded(listing)
                       = {<<n, RefOf(refs[r], n)>> :
                              n \in {m \in Under(refs[r], p) : RefOf(refs[r], m) # None}}
                 /\ Cardinality(Yielded(listing)) = Len(listing)]_vars

\* iter_refs has run with HEAD, MERGE_HEAD and two branches holding values
C13_Listed ==
    /\ last = [op |-> "iter_refs", repo |-> "R1", err |-> ""]
    /\ HeadOf(refs["R1"]) # None
    /\ MergeHeadOf(refs["R1"]) # None
    /\ RefOf(refs["R1"], "refs/heads/master") # None
    /\ RefOf(refs["R1"], "refs/heads/dev") # None

----------------------------------------------------------------------------
(* C14: hash_object(data, type_) called twice with the same kind and       *)
(* payload returns the same id both times and the second call leaves the   *)
(* store as the first left it, with the one object under that id; called   *)
(* with another kind or payload it stores the object under an id of its    *)
(* own and leaves every object stored before as it was.                    *)

C14_HashObjectIdempotent ==
    [][\A r \in Repos, l \in Payloads, k \in Kinds :
          (last'.op = "hash_object" /\ HashObject(r, l, k))
          => LET first == hash_object(objects[r], l, k)
                 second == hash_object(first.objects, l, k)
             IN  /\ second.oid = first.oid
                 /\ second.objects = first.objects
                 /\ objects'[r] = first.objects
                 /\ objects'[r][first.oid] = [type |-> k, lines |-> l]
                 /\ \A o \in DOMAIN objects[r] :
                        /\ o \in DOMAIN objects'[r]
                        /\ objects'[r][o] = objects[r][o]
                        /\ objects[r][o] # [type |-> k, lines |-> l] => o # first.oid
                 /\ (\E o \in DOMAIN objects[r] : objects[r][o] = [type |-> k, lines |-> l])
                       => objects'[r] = objects[r]]_vars

\* hash_object has stored one payload under two kinds and two payloads
\* under one kind
C14_Stored ==
    /\ last = [op |-> "hash_object", repo |-> "R1", err |-> ""]
    /\ \E a \in DOMAIN objects["R1"], b \in DOMAIN objects["R1"], c \in DOMAIN objects["R1"] :
          /\ objects["R1"][a] = [type |-> "blob", lines |-> <<Text(1)>>]
          /\ objects["R1"][b] = [type |-> "tree", lines |-> <<Text(1)>>]
          /\ objects["R1"][c] = [type |-> "blob", lines |-> <<Text(2)>>]
          /\ Cardinality({a, b, c}) = 3

----------------------------------------------------------------------------
(* C15: for all commits a and b of an acyclic commit graph, merge commits  *)
(* included, get_merge_base(a, b) returns the first id that the traversal  *)
(* of the ancestors of b yields and that is an ancestor of a, and None     *)
(* when there is none; a result other than None is an ancestor of both a   *)
(* and b, and get_merge_base(A, A) is A.                                   *)

C15_MergeBase ==
    [][\A r \in Repos : \A a \in Commits(r), b \in Commits(r) :
          (last'.op = "get_merge_base" /\ GetMergeBase(r, a, b))
          => LET base == get_merge_base(objects[r], a, b)
                 order == iter_commits_and_parents(objects[r], SetOf(<<b>>)).out
                 common == Ancestors(objects[r], a) \cap Ancestors(objects[r], b)
             IN  /\ base.err = ""
                 /\ common = {} => base.ret = None
                 /\ common # {}
                    => /\ base.ret \in common
                       /\ \E i \in 1..Len(order) :
                             /\ order[i] = base.ret
                             /\ \A j \in 1..(i - 1) :
                                    order[j] \notin Ancestors(objects[r], a)
                 /\ a = b => base.ret = a]_vars

\* get_merge_base has run on a graph with a merge commit whose parents
\* share an ancestor
C15_MergeBaseRun ==
    /\ last = [op |-> "get_merge_base", repo |-> "R1", err |-> ""]
    /\ \E m \in Commits("R1") :
          /\ Cardinality(ParentsOf(objects["R1"], m)) = 2
          /\ \E x \in ParentsOf(objects["R1"], m), y \in ParentsOf(objects["R1"], m) :
                x # y /\ x \in Ancestors(objects["R1"], y)

----------------------------------------------------------------------------
(* C16: objects are append-only.  Whatever add, write_tree, commit,        *)
(* checkout, read_tree with the update of the working directory (which     *)
(* empties that directory first), merge, push or fetch does, every object  *)
(* stored in a repository before the call is stored there after it, with   *)
(* the same kind and payload.                                              *)

C16_ObjectsAppendOnly ==
    [][\A r \in Repos : \A o \in DOMAIN objects[r] :
          /\ o \in DOMAIN objects'[r]
          /\ objects'[r][o] = objects[r][o]]_vars

\* read_tree has emptied and rewritten a working directory that held a file
\* not in the tree, in a repository that stores commits, trees and blobs
C16_WorkingCleared ==
    /\ last = [op |-> "read_tree", repo |-> "R1", err |-> ""]
    /\ working["R1"] = <<>>
    /\ OfType(objects["R1"], "blob") # {}
    /\ OfType(objects["R1"], "tree") # {}
    /\ OfType(objects["R1"], "commit") # {}
    /\ DOMAIN objects["R2"] # {}

----------------------------------------------------------------------------
(* C17: on every acyclic commit graph, a graph where a commit is reachable *)
(* along two paths included, iter_commits_and_parents yields each commit   *)
(* id at most once, and iter_objects_in_commits yields each commit, tree   *)
(* and blob id at most once.                                               *)

NoDuplicates(seq) == \A i \in DOMAIN seq : \A j \in DOMAIN seq : seq[i] = seq[j] => i = j

C17_YieldsEachIdOnce ==
    [][\A r \in Repos : \A a \in Commits(r) :
          /\ (last'.op = "iter_commits_and_parents" /\ IterCommits(r, <<a>>))
             => NoDuplicates(iter_commits_and_parents(objects[r], SetOf(<<a>>)).out)
          /\ (last'.op = "iter_objects_in_commits" /\ IterObjects(r, <<a>>))
             => NoDuplicates(iter_objects_in_commits(objects[r], SetOf(<<a>>),
                                                     Collect).out)]_vars

\* a traversal has run on a graph with a merge commit whose parents share
\* an ancestor
C17_TraversedSharedAncestor ==
    /\ last.op \in {"iter_commits_and_parents", "iter_objects_in_commits"}
    /\ last.repo = "R1" /\ last.err = ""
    /\ \E m \in Commits("R1") :
          /\ Cardinality(ParentsOf(objects["R1"], m)) = 2
          /\ \E x \in ParentsOf(objects["R1"], m), y \in ParentsOf(objects["R1"], m) :
                x # y /\ x \in Ancestors(objects["R1"], y)


----------------------------------------------------------------------------
(* C18: a merge(other) that is not a fast-forward merges the trees of the  *)
(* merge base, of HEAD and of other in those roles: the index it leaves    *)
(* holds, for every path that only HEAD changed from the merge base,       *)
(* HEAD's entry (none when HEAD removed the path), and for every path that *)
(* only other changed, other's entry.                                      *)

\* the path -> blob entries of the tree of a commit
TreeOf(objs, oid) == get_tree(objs, get_commit(objs, oid).tree, <<>>).results

C18_ThreeWayRoles ==
    [][\A r \in Repos, c \in Contents : \A o \in Commits(r) :
          (/\ last'.op = "merge" /\ last'.err = ""
           /\ HeadOf(refs[r]) # None
           /\ HeadOf(refs[r]) \notin Ancestors(objects[r], o)
           /\ Merge(r, o, c)
           /\ Ancestors(objects[r], HeadOf(refs[r])) \cap Ancestors(objects[r], o) # {})
          => LET HEAD == HeadOf(refs[r])
                 t_base == TreeOf(objects[r], get_merge_base(objects[r], o, HEAD).ret)
                 t_HEAD == TreeOf(objects[r], HEAD)
                 t_other == TreeOf(objects[r], o)
             IN  \A p \in Paths :
                    /\ (DictGet(t_HEAD, p) # DictGet(t_base, p)
                           /\ DictGet(t_other, p) = DictGet(t_base, p))
                       => DictGet(index'[r], p) = DictGet(t_HEAD, p)
                    /\ (DictGet(t_other, p) # DictGet(t_base, p)
                           /\ DictGet(t_HEAD, p) = DictGet(t_base, p))
                       => DictGet(index'[r], p) = DictGet(t_other, p)]_vars

\* a merge that is not a fast-forward has returned where HEAD's tree has a
\* path that the trees of the merge base and of other lack
C18_MergedHeadSideChange ==
    /\ last = [op |-> "merge", repo |-> "R1", err |-> ""]
    /\ MergeHeadOf(refs["R1"]) \in Commits("R1")
    /\ HeadOf(refs["R1"]) \notin Ancestors(objects["R1"], MergeHeadOf(refs["R1"]))
    /\ \E p \in Paths :
          /\ DictGet(TreeOf(objects["R1"], HeadOf(refs["R1"])), p) # None
          /\ DictGet(TreeOf(objects["R1"], MergeHeadOf(refs["R1"])), p) = None


----------------------------------------------------------------------------
(* C19: when checkout(name) returns, and when merge(other) returns from a  *)
(* fast-forward, the index and the working directory both hold exactly the *)
(* entries of the tree of the commit that was loaded: the index maps the   *)
(* paths of that tree to its blobs, and the files of the working directory *)
(* that are not ignored are the paths of that tree, each with the content  *)
(* of its blob.                                                            *)

\* index and working directory hold the tree of the commit oid
HoldsTreeOf(objs, idx, work, oid) ==
    LET tree == TreeOf(objs, oid)
        paths == {tree[i].path : i \in 1..Len(tree)}
    IN  /\ {idx[i] : i \in 1..Len(idx)} = {tree[i] : i \in 1..Len(tree)}
        /\ {p \in DOMAIN work : ~is_ignored(p)} = paths
        /\ \A p \in paths : work[p] = objs[DictGet(tree, p)].lines

C19_CheckoutLoadsTree ==
    [][\A r \in Repos :
          /\ \A n \in {Name(b) : b \in Branches} \cup {DigestName(o) : o \in Commits(r)} :
                (last'.op = "checkout" /\ last'.err = "" /\ Checkout(r, n))
                => HoldsTreeOf(objects'[r], index'[r], working'[r],
                               get_oid(refs[r], n).ret)
          /\ \A c \in Contents : \A o \in Commits(r) :
                (/\ last'.op = "merge" /\ last'.err = ""
                 /\ HeadOf(refs[r]) \in Ancestors(objects[r], o)
                 /\ Merge(r, o, c))
                => HoldsTreeOf(objects'[r], index'[r], working'[r], o)]_vars

\* the index alone holds the tree of the commit loaded
IndexHoldsTreeOf(objs, idx, oid) ==
    LET tree == TreeOf(objs, oid)
    IN  {idx[i] : i \in 1..Len(idx)} = {tree[i] : i \in 1..Len(tree)}

\* a checkout has returned with, in the working directory, a file that the
\* tree of the commit loaded lacks
C19_CheckedOutOverOtherFiles ==
    /\ last = [op |-> "checkout", repo |-> "R1", err |-> ""]
    /\ HeadOf(refs["R1"]) \in Commits("R1")
    /\ IndexHoldsTreeOf(objects["R1"], index["R1"], HeadOf(refs["R1"]))
    /\ \E p \in DOMAIN working["R1"] :
          DictGet(TreeOf(objects["R1"], HeadOf(refs["R1"])), p) = None


----------------------------------------------------------------------------
(* The traversals under a consumer that fetches: one repository adds files *)
(* and commits, the other commits and runs the loop of fetch on the ids of *)
(* the first one's commits.                                                *)

Origin == Repos \ Work

NextFetch ==
    \/ \E r \in Origin, p \in Paths, c \in Contents : Add(r, p, c)
    \/ \E r \in Repos, m \in Messages : Commit(r, m)
    \/ \E r \in Work : Fetch(r)
    \/ \E r \in Work : \E a \in Commits(Remote(r)) : FetchObjects(r, <<a>>)

SpecFetch == Init /\ [][NextFetch]_vars

----------------------------------------------------------------------------
(* C20: iter_commits_and_parents and iter_objects_in_commits yield every   *)
(* id before they read the object of that id.  A traversal from a commit   *)
(* that is not stored yields its id and only then fails on the read; and   *)
(* under the loop of fetch, which copies each yielded id from the remote   *)
(* when it is missing, the traversal from a commit of the remote never     *)
(* reads an object that the local repository lacks and the remote has: it  *)
(* ends without error, and every id it yielded is stored locally with the  *)
(* remote's content.  fetch itself never ends on the read of an object    *)
(* that is not stored.                                                     *)

----------------------------------------------------------------------------
(* The generator of iter_commits_and_parents, one iteration of its loop at *)
(* a time, on the commit graphs that hash_object stores.  Its consumers    *)
(* (set(...) and the for loops of get_merge_base and is_ancestor_of) ask   *)
(* for the next id until the generator returns, and nothing else runs      *)
(* meanwhile: the fairness of ResumeIter is that of the consumer's loop.   *)

NextTraverse ==
    \/ \E r \in Work, p \in Paths, c \in Contents : ~iter.running /\ Add(r, p, c)
    \/ \E r \in Work, m \in Messages :
         \E p1 \in Commits(r) \cup {None}, p2 \in Commits(r) \cup {None} :
             ~iter.running /\ HashCommit(r, p1, p2, m)
    \/ \E r \in Work : \E a \in Commits(r) : StartIter(r, <<a>>)
    \/ \E r \in Work : \E a \in Commits(r), b \in Commits(r) :
             a # b /\ StartIter(r, <<a, b>>)
    \/ \E r \in Work : ResumeIter(r)

SpecTraverse ==
    Init /\ [][NextTraverse]_vars /\ WF_vars(\E r \in Work : ResumeIter(r))

----------------------------------------------------------------------------
(* C21: on every stored acyclic commit graph, iter_commits_and_parents     *)
(* started on commits of the graph terminates: its deque becomes empty and *)
(* the generator returns, without error.  The set of the ids it has        *)
(* yielded is then the set of the commits reachable from the starting ids  *)
(* through parent links, and first parents come before second parents:     *)
(* the id yielded right after a commit with a parent is its first parent,  *)
(* and its second parent is yielded later than that.                       *)

\* the generator has been started and has returned
Returned == ~iter.running /\ iter.seeds # <<>>

C21_TraversalTerminates ==
    /\ iter.running ~> Returned
    /\ [](Returned =>
            LET objs == objects[iter.repo]
                out == iter.yielded
            IN  /\ iter.err = "" /\ iter.oids = <<>>
                /\ {out[i] : i \in 1..Len(out)}
                      = UNION {Ancestors(objs, iter.seeds[i]) : i \in 1..Len(iter.seeds)}
                /\ out = iter_commits_and_parents(objs, SetOf(iter.seeds)).out
                /\ \A i \in 1..Len(out) :
                      LET parents == get_commit(objs, out[i]).parents
                      IN  /\ Len(parents) >= 1
                             => i < Len(out) /\ out[i + 1] = parents[1]
                          /\ Len(parents) >= 2
                             => \E j \in (i + 2)..Len(out) : out[j] = parents[2])

\* the generator has returned from a traversal started on a merge commit
\* whose parents share an ancestor
C21_TraversedMerge ==
    /\ Returned
    /\ iter.repo = "R1" /\ Len(iter.seeds) = 1
    /\ Cardinality(ParentsOf(objects["R1"], iter.seeds[1])) = 2
    /\ \E x \in ParentsOf(objects["R1"], iter.seeds[1]),
          y \in ParentsOf(objects["R1"], iter.seeds[1]) :
             x # y /\ x \in Ancestors(objects["R1"], y)
    /\ Len(iter.yielded) >= 4

====
